---- MODULE Spec2Model ----
(***************************************************************************)
(* Sora Video Studio: the webhook client (src/src/hooks/useWebhookClient.ts),*)
(* the video flow of the VideoSection component                            *)
(* (src/src/components/VideoSection.tsx), the prompt refinement of the     *)
(* PromptSection component, the persisted store                            *)
(* (src/src/state/useAppStore.ts) and the settings drawer.                 *)
(*                                                                         *)
(* JSON values are tagged records [k, v]: k is the JavaScript type and v   *)
(* the payload.  A string is a sequence of tokens; the token " " is a      *)
(* whitespace character, "A" and "B" are characters of the base64          *)
(* alphabet, "!" is a character outside it, and the tokens "data:",        *)
(* ";base64," and "video/mp4" stand for those literal character runs.      *)
(***************************************************************************)
EXTENDS Integers, Sequences, FiniteSets, TLC

VARIABLES
    data,          \* pure calls: the JSON body handed to the operation
    op,            \* pure calls: the operation applied to data ("none" before)
    out,           \* pure calls: what the operation resolved or rejected with
    status,        \* VideoSection: useState<Status>
    controller,    \* VideoSection: useState<AbortController | null>, 0 = null
    flows,         \* one record per handleSubmit invocation (its closure)
    nflows,        \* number of handleSubmit invocations that passed the guards
    now,           \* Date.now()
    videoLibrary,  \* useAppStore: videoLibrary
    videoWebhook,  \* useAppStore: videoWebhook
    script,        \* the status endpoint's successive responses (direct poll calls)
    event,         \* the last step: what was delivered, requested and notified
    theme,         \* useAppStore: theme
    promptWebhook, \* useAppStore: promptWebhook
    recentPrompts, \* useAppStore: recentPrompts
    activePromptId,\* useAppStore: activePromptId, 0 = undefined
    localStorage,  \* window.localStorage: the items by key
    settingsOpen,  \* App: useState settingsOpen
    form,          \* SettingsDrawer: the values of the form
    limit,         \* how many store calls a behaviour may make, by kind
    used,          \* how many store calls were made, by kind
    game           \* SnakeGame: stateRef.current and the component's state

vars ==
    <<data, op, out, status, controller, flows, nflows, now, videoLibrary,
      videoWebhook, script, event, theme, promptWebhook, recentPrompts,
      activePromptId, localStorage, settingsOpen, form, limit, used, game>>
\* what no action of the component, the store and the drawer touches
pureVars == <<data, op, out, game>>
flowVars ==
    <<status, controller, flows, nflows, now, videoLibrary, videoWebhook, script, event>>
\* the histories of the store and their persisted copy
historyVars == <<videoLibrary, recentPrompts, activePromptId, localStorage>>
\* the settings, the settings drawer and the call counts
settingsVars == <<theme, promptWebhook, settingsOpen, form, limit, used>>
storeVars == <<theme, promptWebhook, recentPrompts, activePromptId, localStorage>>

----------------------------------------------------------------------------
(* JSON values *)

Str(s) == [k |-> "string", v |-> s]
Num == [k |-> "number", v |-> <<>>]
Null == [k |-> "null", v |-> <<>>]
Undef == [k |-> "undefined", v |-> <<>>]
Obj(f) == [k |-> "object", v |-> f]
Arr(a) == [k |-> "array", v |-> a]

EmptyObj == [x \in {} |-> Undef]

Min(S) == CHOOSE x \in S : \A y \in S : x <= y
Max(S) == CHOOSE x \in S : \A y \in S : x >= y

\* source[key]: a missing property reads as undefined
Get(source, key) == IF key \in DOMAIN source THEN source[key] ELSE Undef

\* data.key on a parsed JSON body
Prop(value, key) == IF value.k = "object" THEN Get(value.v, key) ELSE Undef

\* a ?? b
Nullish(value) == value.k \in {"undefined", "null"}
Coalesce(a, b) == IF Nullish(a) THEN b ELSE a

\* JavaScript truthiness; Num stands for a non-zero number
Truthy(value) ==
    CASE value.k = "string" -> Len(value.v) > 0
      [] value.k \in {"undefined", "null"} -> FALSE
      [] OTHER -> TRUE

\* String.prototype.trim
Trim(s) ==
    LET idx == {i \in 1..Len(s) : s[i] # " "}
    IN IF idx = {} THEN <<>> ELSE SubSeq(s, Min(idx), Max(idx))

\* s.replace(/\s/g, "")
StripWhitespace(s) == SelectSeq(s, LAMBDA c : c # " ")

StartsWithData(s) == Len(s) > 0 /\ s[1] = "data:"

Base64Alphabet == {"A", "B"}

\* globalThis.atob(s) returns (TRUE) or throws InvalidCharacterError (FALSE):
\* forgiving-base64 decode of a string without whitespace or padding
AtobDecodes(s) ==
    /\ \A i \in 1..Len(s) : s[i] \in Base64Alphabet
    /\ Len(s) % 4 # 1

----------------------------------------------------------------------------
(* useWebhookClient.ts: alias lists *)

VIDEO_URL_KEYS == <<"videoUrl", "video_url", "url", "sora_video_result", "result">>
VIDEO_BASE64_KEYS ==
    <<"videoBase64", "video_base64", "base64", "videoData", "video_data",
      "binary", "binaryData", "data">>
MIME_TYPE_KEYS == <<"mimeType", "mimetype", "contentType", "content_type", "type">>
FILE_NAME_KEYS == <<"fileName", "filename", "name">>

Range(seq) == {seq[i] : i \in 1..Len(seq)}

EXCLUDED_META_KEYS ==
    Range(VIDEO_BASE64_KEYS) \cup Range(VIDEO_URL_KEYS)
        \cup {"videoBinary", "video_binary", "rawVideo", "raw_video"}

isRecord(value) == value.k = "object"

IsNonBlankString(value) == value.k = "string" /\ Len(Trim(value.v)) > 0

\* a faulty variant of pickString: the last matching alias wins
pickStringLast(source, keys) ==
    LET hits == {i \in 1..Len(keys) : IsNonBlankString(Get(source, keys[i]))}
    IN IF hits = {} THEN Undef ELSE Str(Trim(Get(source, keys[Max(hits)]).v))

pickString(source, keys) ==
    LET hits == {i \in 1..Len(keys) : IsNonBlankString(Get(source, keys[i]))}
    IN IF hits = {} THEN Undef ELSE Str(Trim(Get(source, keys[Min(hits)]).v))

DefaultMime == <<"video/mp4">>

\* a faulty variant of createDataUrlFromBase64: the atob validation is skipped
createDataUrlNoValidation(value, fallbackMime) ==
    IF Len(value) = 0 THEN Undef
    ELSE LET trimmed == Trim(value)
             cleaned == StripWhitespace(trimmed)
             mimeType == IF Len(fallbackMime) > 0 THEN fallbackMime ELSE DefaultMime
         IN IF StartsWithData(trimmed) THEN Str(trimmed)
            ELSE Str(<<"data:">> \o mimeType \o <<";base64,">> \o cleaned)

createDataUrlFromBase64(value, fallbackMime) ==
    IF Len(value) = 0 THEN Undef
    ELSE LET trimmed == Trim(value)
             cleaned == StripWhitespace(trimmed)
             mimeType == IF Len(fallbackMime) > 0 THEN fallbackMime ELSE DefaultMime
         IN IF StartsWithData(trimmed) THEN Str(trimmed)
            ELSE IF ~AtobDecodes(cleaned) THEN Undef
            ELSE Str(<<"data:">> \o mimeType \o <<";base64,">> \o cleaned)

\* a faulty variant of sanitizeMeta: nothing is filtered out
sanitizeMetaKeepAll(source) ==
    IF DOMAIN source = {} THEN Undef ELSE Obj(source)

sanitizeMeta(source) ==
    LET kept == {key \in DOMAIN source :
                    ~(source[key].k = "string" /\ key \in EXCLUDED_META_KEYS)}
    IN IF kept = {} THEN Undef ELSE Obj([key \in kept |-> source[key]])

normalizeVideoPayload(source) ==
    LET picked == pickString(source, VIDEO_URL_KEYS)
        videoMimeType == pickString(source, MIME_TYPE_KEYS)
        videoFileName == pickString(source, FILE_NAME_KEYS)
        base64 == pickString(source, VIDEO_BASE64_KEYS)
        videoUrl ==
            IF Truthy(picked) THEN picked
            ELSE IF Truthy(base64)
                 THEN createDataUrlFromBase64(
                          base64.v, Coalesce(videoMimeType, Str(DefaultMime)).v)
                 ELSE picked
    IN [videoUrl |-> videoUrl,
        videoFileName |-> videoFileName,
        videoMimeType |->
            Coalesce(videoMimeType,
                     IF videoUrl.k = "string" /\ StartsWithData(videoUrl.v)
                     THEN Str(DefaultMime) ELSE Undef)]

\* baseMeta || nestedMeta ? { ...(baseMeta ?? {}), ...(nestedMeta ?? {}) } : undefined
combinedMeta(dat) ==
    LET baseMeta == sanitizeMeta(dat.v)
        meta == Get(dat.v, "meta")
        nestedMeta == IF Truthy(meta) /\ isRecord(meta) THEN sanitizeMeta(meta.v) ELSE Undef
        base == IF Nullish(baseMeta) THEN EmptyObj ELSE baseMeta.v
        nested == IF Nullish(nestedMeta) THEN EmptyObj ELSE nestedMeta.v
    IN IF Truthy(baseMeta) \/ Truthy(nestedMeta)
       THEN Obj([key \in DOMAIN base \cup DOMAIN nested |->
                    IF key \in DOMAIN nested THEN nested[key] ELSE base[key]])
       ELSE Undef

----------------------------------------------------------------------------
(* HTTP responses as fetch() delivers them: response.ok, the parsed JSON of
   response.json(), the text of response.text() and response.statusText *)

HttpOk(json) == [ok |-> TRUE, json |-> json, text |-> <<>>, statusText |-> <<>>]
HttpError(text, statusText) ==
    [ok |-> FALSE, json |-> Undef, text |-> text, statusText |-> statusText]

\* what an awaited call settles with: resolved (val) or rejected (err)
Resolved(val) == [ok |-> TRUE, err |-> <<>>, val |-> val]
Rejected(err) == [ok |-> FALSE, err |-> err, val |-> Undef]

\* text || response.statusText
\* a faulty variant of HttpErrorMessage: the status text is always taken
HttpErrorStatusText(resp) == resp.statusText

\* throw new Error(text || response.statusText)
HttpErrorMessage(resp) == IF Len(resp.text) > 0 THEN resp.text ELSE resp.statusText

ErrInvalidVideoResponse == <<"Ungueltige Antwort vom Video-Webhook">>
ErrInvalidStatusResponse == <<"Ungueltige Status-Antwort vom Video-Webhook">>
ErrAborted == <<"Abgebrochen">>
ErrTimeout == <<"Timeout beim Abfragen des Video-Status">>
ErrNoPromptText == <<"Webhook-Antwort enthielt keinen Prompt-Text.">>
ErrJobFailed == <<"Der Video-Job wurde vom Backend als fehlgeschlagen gemeldet.">>
ErrNoVideoLink == <<"Die Antwort enthielt keinen Link zum Video.">>
ErrAbortedFetch == <<"AbortError">>

sendVideoWebhook(resp) ==
    IF ~resp.ok THEN Rejected(HttpErrorMessage(resp))
    ELSE IF ~isRecord(resp.json) THEN Rejected(ErrInvalidVideoResponse)
    ELSE LET dat == resp.json
             n == normalizeVideoPayload(dat.v)
         IN Resolved(
              [jobId |-> Coalesce(Prop(dat, "jobId"), Prop(dat, "id")),
               statusUrl |-> Coalesce(Prop(dat, "statusUrl"),
                               Coalesce(Prop(dat, "status_url"), Prop(dat, "statusURI"))),
               videoUrl |-> Coalesce(n.videoUrl,
                              Coalesce(Prop(dat, "videoUrl"),
                                Coalesce(Prop(dat, "video_url"), Prop(dat, "url")))),
               videoFileName |-> n.videoFileName,
               videoMimeType |-> n.videoMimeType,
               meta |-> combinedMeta(dat)])

PROMPT_TEXT_KEYS == <<"prompt", "output", "text", "message">>

\* typeof null and typeof [] are "object"; null is falsy, an array has none of the keys
extractPrompt(value) ==
    IF value.k = "string" THEN value
    ELSE IF value.k \in {"object", "array"}
    THEN LET source == IF value.k = "object" THEN value.v ELSE EmptyObj
             hits == {i \in 1..Len(PROMPT_TEXT_KEYS) :
                         Get(source, PROMPT_TEXT_KEYS[i]).k = "string"}
         IN IF hits = {} THEN Undef ELSE source[PROMPT_TEXT_KEYS[Min(hits)]]
    ELSE Undef

\* the for loop over an array body: promptText after the loop
RECURSIVE promptOfEntries(_, _, _)
promptOfEntries(entries, i, promptText) ==
    IF i > Len(entries) THEN promptText
    ELSE LET t == extractPrompt(entries[i])
         IN IF Truthy(t) THEN t ELSE promptOfEntries(entries, i + 1, t)

\* a faulty variant of callPromptWebhook: only the first array entry is read
callPromptWebhookFirstEntry(resp) ==
    IF ~resp.ok THEN Rejected(HttpErrorMessage(resp))
    ELSE LET dat == resp.json
             promptText ==
                 IF dat.k = "array"
                 THEN (IF Len(dat.v) = 0 THEN Undef ELSE extractPrompt(dat.v[1]))
                 ELSE extractPrompt(dat)
         IN IF ~Truthy(promptText) THEN Rejected(ErrNoPromptText)
            ELSE Resolved([prompt |-> Str(Trim(promptText.v)),
                           meta |-> IF dat.k \in {"object", "array"} THEN dat ELSE Undef])

callPromptWebhook(resp) ==
    IF ~resp.ok THEN Rejected(HttpErrorMessage(resp))
    ELSE LET dat == resp.json
             promptText ==
                 IF dat.k = "array" THEN promptOfEntries(dat.v, 1, Undef)
                 ELSE extractPrompt(dat)
         IN IF ~Truthy(promptText) THEN Rejected(ErrNoPromptText)
            ELSE Resolved([prompt |-> Str(Trim(promptText.v)),
                           meta |-> IF dat.k \in {"object", "array"} THEN dat ELSE Undef])

StCompleted == Str(<<"completed">>)
StFailed == Str(<<"failed">>)
StProcessing == Str(<<"processing">>)
StPending == Str(<<"pending">>)

\* data.status ?? data.state ?? (data.videoUrl || data.url ? "completed" : "processing")
pollStatusOf(dat) ==
    Coalesce(Prop(dat, "status"),
      Coalesce(Prop(dat, "state"),
        IF Truthy(Prop(dat, "videoUrl")) \/ Truthy(Prop(dat, "url"))
        THEN StCompleted ELSE StProcessing))

NoResult ==
    [status |-> "none", videoUrl |-> Undef, videoFileName |-> Undef,
     videoMimeType |-> Undef, meta |-> Undef]

\* a faulty variant of pollResponse: a failed status does not end the loop
pollResponseIgnoreFailed(resp) ==
    IF ~resp.ok THEN [kind |-> "throw", err |-> HttpErrorMessage(resp), val |-> NoResult]
    ELSE IF ~isRecord(resp.json)
    THEN [kind |-> "throw", err |-> ErrInvalidStatusResponse, val |-> NoResult]
    ELSE LET dat == resp.json
             st == pollStatusOf(dat)
             n == normalizeVideoPayload(dat.v)
         IN IF st = StCompleted
            THEN [kind |-> "return", err |-> <<>>,
                  val |-> [status |-> "completed",
                           videoUrl |-> Coalesce(n.videoUrl,
                                          Coalesce(Prop(dat, "videoUrl"), Prop(dat, "url"))),
                           videoFileName |-> n.videoFileName,
                           videoMimeType |-> n.videoMimeType,
                           meta |-> combinedMeta(dat)]]
            ELSE [kind |-> "continue", err |-> <<>>, val |-> NoResult]

\* one pass of pollVideoStatus's loop body from the response to the timeout check:
\* throw, return, or continue to the timeout check
pollResponse(resp) ==
    IF ~resp.ok THEN [kind |-> "throw", err |-> HttpErrorMessage(resp), val |-> NoResult]
    ELSE IF ~isRecord(resp.json)
    THEN [kind |-> "throw", err |-> ErrInvalidStatusResponse, val |-> NoResult]
    ELSE LET dat == resp.json
             st == pollStatusOf(dat)
             n == normalizeVideoPayload(dat.v)
         IN IF st = StCompleted
            THEN [kind |-> "return", err |-> <<>>,
                  val |-> [status |-> "completed",
                           videoUrl |-> Coalesce(n.videoUrl,
                                          Coalesce(Prop(dat, "videoUrl"), Prop(dat, "url"))),
                           videoFileName |-> n.videoFileName,
                           videoMimeType |-> n.videoMimeType,
                           meta |-> combinedMeta(dat)]]
            ELSE IF st = StFailed
            THEN [kind |-> "return", err |-> <<>>,
                  val |-> [NoResult EXCEPT !.status = "failed", !.meta = dat]]
            ELSE [kind |-> "continue", err |-> <<>>, val |-> NoResult]

----------------------------------------------------------------------------
(* useAppStore.ts: the store's state, its operations and zustand's persist
   middleware, which rewrites the item "sora-video-studio" of localStorage after
   every set.  A record's id is a number (crypto.randomUUID() yields a fresh
   one), its createdAt the number of the save that made it. *)

MaxPrompts == 10
MaxVideos == 20
StorageKey == "sora-video-studio"

DefaultState ==
    [theme |-> "dark", promptWebhook |-> <<>>, videoWebhook |-> <<>>,
     recentPrompts |-> <<>>, activePromptId |-> 0, videoLibrary |-> <<>>]

\* get(): the store's state
AppState ==
    [theme |-> theme, promptWebhook |-> promptWebhook, videoWebhook |-> videoWebhook,
     recentPrompts |-> recentPrompts, activePromptId |-> activePromptId,
     videoLibrary |-> videoLibrary]

Ids(list) == {list[i].id : i \in 1..Len(list)}
Without(record, key) == [k \in DOMAIN record \ {key} |-> record[k]]
Head10(list) == SubSeq(list, 1, Min({Len(list), MaxPrompts}))

\* a faulty variant of savePrompt: the list is not cut
savePromptUncut(list, record) ==
    <<record>> \o SelectSeq(list, LAMBDA item : item.id # record.id)

\* useAppStore.savePrompt: the new recentPrompts
savePrompt(list, record) ==
    LET filtered == SelectSeq(list, LAMBDA item : item.id # record.id)
        next == <<record>> \o filtered
    IN Head10(next)

\* a faulty variant of saveVideo: the record with the same id is kept
saveVideoUnfiltered(library, record) ==
    LET next == <<record>> \o library
    IN SubSeq(next, 1, Min({Len(next), MaxVideos}))

\* useAppStore.saveVideo: the new videoLibrary
saveVideo(library, record) ==
    LET filtered == SelectSeq(library, LAMBDA item : item.id # record.id)
        next == <<record>> \o filtered
    IN SubSeq(next, 1, Min({Len(next), MaxVideos}))

\* useAppStore.removePrompt, removeVideo: the list without the record of that id
removeById(list, id) == SelectSeq(list, LAMBDA item : item.id # id)

\* a faulty variant of removePrompt's activePromptId: it is kept
activeAfterRemoveKept(active, id) == active

\* useAppStore.removePrompt: the activePromptId it leaves (0 is undefined)
activeAfterRemove(active, id) == IF active = id THEN 0 ELSE active

\* useAppStore.setTheme, toggleTheme, setPromptWebhook, setVideoWebhook: the new state
setTheme(state, mode) == [state EXCEPT !.theme = mode]
toggledTheme(state) == [state EXCEPT !.theme = IF @ = "dark" THEN "light" ELSE "dark"]
setPromptWebhook(state, url) == [state EXCEPT !.promptWebhook = Trim(url)]
setVideoWebhook(state, url) == [state EXCEPT !.videoWebhook = Trim(url)]

\* JSON.stringify leaves out a property whose value is undefined
stringifyPrompt(record) ==
    IF record.optimizedPrompt = Undef THEN Without(record, "optimizedPrompt") ELSE record
stringifyVideo(record) ==
    IF record.meta = Undef THEN Without(record, "meta") ELSE record
stringify(state) ==
    LET lists == [state EXCEPT
                     !.recentPrompts = [i \in 1..Len(@) |-> stringifyPrompt(@[i])],
                     !.videoLibrary = [i \in 1..Len(@) |-> stringifyVideo(@[i])]]
    IN [state |-> IF state.activePromptId = 0
                  THEN Without(lists, "activePromptId") ELSE lists,
        version |-> 0]

\* a faulty variant of persist: the item is written without the video library
persistWithoutVideos(state) ==
    (StorageKey :> stringify([state EXCEPT !.videoLibrary = <<>>]))

\* persist: setItem(name, JSON.stringify({state, version})) after a set
persist(state) == (StorageKey :> stringify(state))

\* a property of a parsed record read by the application: undefined when absent
parsePrompt(json) ==
    [id |-> json.id, originalPrompt |-> json.originalPrompt,
     optimizedPrompt |-> IF "optimizedPrompt" \in DOMAIN json
                         THEN json.optimizedPrompt ELSE Undef,
     createdAt |-> json.createdAt]
parseVideo(json) ==
    [id |-> json.id, prompt |-> json.prompt, imageName |-> json.imageName,
     videoUrl |-> json.videoUrl, createdAt |-> json.createdAt,
     meta |-> IF "meta" \in DOMAIN json THEN json.meta ELSE Undef]

\* a faulty variant of rehydrate: the stored state is not read
rehydrateDefaults(storage) == DefaultState

\* persist at startup: the stored state merged over the initial state
rehydrate(storage) ==
    IF StorageKey \notin DOMAIN storage THEN DefaultState
    ELSE LET stored == storage[StorageKey].state
             merged == [key \in DOMAIN DefaultState |->
                           IF key \in DOMAIN stored THEN stored[key]
                           ELSE DefaultState[key]]
         IN [merged EXCEPT
                !.recentPrompts = [i \in 1..Len(@) |-> parsePrompt(@[i])],
                !.videoLibrary = [i \in 1..Len(@) |-> parseVideo(@[i])]]

\* the store as created, but for the video fields
StoreFresh ==
    /\ theme = "dark"
    /\ promptWebhook = <<>>
    /\ recentPrompts = <<>>
    /\ activePromptId = 0
    /\ localStorage = persist(AppState)

\* the settings drawer closed, its form holding the stored URLs
DrawerClosed ==
    /\ settingsOpen = FALSE
    /\ form = [promptWebhook |-> promptWebhook, videoWebhook |-> videoWebhook]

NoCalls == [prompts |-> 0, videos |-> 0, edits |-> 0]

----------------------------------------------------------------------------
(* SnakeGame.tsx: the minigame shown while a video flow is busy *)

BOARD_SIZE == 18

Directions == {"up", "down", "left", "right"}
Coords(x, y) == [x |-> x, y |-> y]

directionVectors(direction) ==
    CASE direction = "up" -> Coords(0, -1)
      [] direction = "down" -> Coords(0, 1)
      [] direction = "left" -> Coords(-1, 0)
      [] direction = "right" -> Coords(1, 0)

oppositeDirection(direction) ==
    CASE direction = "up" -> "down"
      [] direction = "down" -> "up"
      [] direction = "left" -> "right"
      [] direction = "right" -> "left"

Board == {Coords(x, y) : x \in 0..(BOARD_SIZE - 1), y \in 0..(BOARD_SIZE - 1)}
Segments(snake) == {snake[i] : i \in 1..Len(snake)}

\* resetGame: the snake of three segments, its head on the middle cell
start == Coords(BOARD_SIZE \div 2, BOARD_SIZE \div 2)
StartSnake == <<start, Coords(start.x - 1, start.y), Coords(start.x - 2, start.y)>>

\* a faulty variant of isOutside: the far edges are one cell off
isOutsideOffByOne(newHead) ==
    newHead.x < 0 \/ newHead.x > BOARD_SIZE \/ newHead.y < 0 \/ newHead.y > BOARD_SIZE

\* the tick's tests of the new head position
isOutside(newHead) ==
    newHead.x < 0 \/ newHead.x >= BOARD_SIZE \/ newHead.y < 0 \/ newHead.y >= BOARD_SIZE
hitsBody(snake, newHead) == \E i \in 1..Len(snake) : snake[i] = newHead

\* the direction the next tick moves in, and the cell it moves the head to
heading(g) == IF g.pendingDirection # "none" THEN g.pendingDirection ELSE g.direction
newHeadOf(g) ==
    Coords(g.snake[1].x + directionVectors(heading(g)).x,
           g.snake[1].y + directionVectors(heading(g)).y)

\* the component before it is mounted.  stored is the item snake-highscore of
\* localStorage as a number, 0 when there is none; ticks and keys count the
\* interval callbacks and the key presses of a behaviour.
NoGame ==
    [mounted |-> FALSE, direction |-> "right", pendingDirection |-> "none",
     snake |-> <<>>, apple |-> Coords(0, 0), isGameOver |-> FALSE,
     score |-> 0, highscore |-> 0, stored |-> 0, ticks |-> 0, keys |-> 0]

----------------------------------------------------------------------------
(* The webhook client's calls applied to response bodies.  A body is composed
   field by field (entry by entry for an array) and the call is then applied
   to it. *)

MaxFields == 2         \* fields of a response object
MaxArrayLen == 2       \* entries of a prompt-webhook response array

UrlValues == {Str(<<"u">>), Str(<<" ", "v", " ">>), Str(<<" ">>), Str(<<>>), Num}
Base64Values ==
    {Str(<<"A", " ", "B">>), Str(<<"A">>), Str(<<"!", "A">>), Str(<<"data:", "!">>)}
MimeValues == {Str(<<"video/webm">>), Str(<<" ">>)}
NameValues == {Str(<<"clip.mp4">>)}
OtherValues == {Str(<<"t">>), Num}
NestedMetaValues ==
    {Obj([key \in {"foo"} |-> Str(<<"nested">>)]),
     Obj([key \in {"url"} |-> Str(<<"n">>)]),
     Obj([key \in {"url"} |-> Num]),
     Obj([key \in {"foo", "url"} |-> Str(<<"nested">>)]),
     Str(<<"t">>)}
PromptStrings == {Str(<<"x">>), Str(<<" ", "y", " ">>), Str(<<" ">>), Str(<<>>)}

VideoBodyKeys ==
    VIDEO_URL_KEYS \o VIDEO_BASE64_KEYS \o MIME_TYPE_KEYS \o FILE_NAME_KEYS
        \o <<"videoBinary", "video_binary", "rawVideo", "raw_video">>
        \o <<"meta", "foo", "statusUrl", "status_url", "statusURI", "jobId", "id">>
PromptBodyKeys == PROMPT_TEXT_KEYS \o <<"other">>
BodyKeys == VideoBodyKeys \o PromptBodyKeys

ValuesOf(key) ==
    CASE key \in Range(VIDEO_URL_KEYS) -> UrlValues
      [] key \in Range(VIDEO_BASE64_KEYS) -> Base64Values
      [] key \in Range(MIME_TYPE_KEYS) -> MimeValues
      [] key \in Range(FILE_NAME_KEYS) -> NameValues
      [] key = "meta" -> NestedMetaValues
      [] key \in {"statusUrl", "status_url", "statusURI"} -> {Str(<<"s">>)}
      [] key \in {"jobId", "id"} -> {Str(<<"j">>)}
      [] key \in Range(PromptBodyKeys) -> PromptStrings \cup {Num}
      [] OTHER -> OtherValues

PromptEntries ==
    PromptStrings \cup {Num, Null, Obj(EmptyObj)}
        \cup {Obj([key \in {PROMPT_TEXT_KEYS[i]} |-> val]) :
                 i \in 1..Len(PROMPT_TEXT_KEYS), val \in {Str(<<"x">>), Str(<<>>)}}

KeyIndex(key) == CHOOSE i \in 1..Len(BodyKeys) : BodyKeys[i] = key

NoOut == [ok |-> FALSE, err |-> <<>>, val |-> Undef]

\* the component and the store are not part of a pure call
PureIdle ==
    /\ status = "idle" /\ controller = 0 /\ flows = <<>> /\ nflows = 0
    /\ now = 0 /\ videoLibrary = <<>> /\ videoWebhook = <<>> /\ script = <<>>
    /\ event = <<>>
    /\ StoreFresh /\ DrawerClosed /\ limit = NoCalls /\ used = NoCalls
    /\ game = NoGame

PureInit ==
    /\ data \in {HttpOk(b) : b \in PromptStrings \cup {Num, Null, Obj(EmptyObj), Arr(<<>>)}}
    /\ op = "none"
    /\ out = NoOut
    /\ PureIdle

\* the endpoint's body gains a field: keys are added in the order of BodyKeys,
\* a video-webhook body from VideoBodyKeys and a prompt-webhook body from PromptBodyKeys
AddField(key, val) ==
    /\ op = "none"
    /\ data.json.k = "object"
    /\ Cardinality(DOMAIN data.json.v) < MaxFields
    /\ \A other \in DOMAIN data.json.v :
          /\ KeyIndex(other) < KeyIndex(key)
          /\ (other \in Range(PromptBodyKeys)) = (key \in Range(PromptBodyKeys))
    /\ data' = [data EXCEPT !.json = Obj((key :> val) @@ data.json.v)]
    /\ UNCHANGED <<op, out, game, flowVars, storeVars, settingsVars>>

AddEntry(entry) ==
    /\ op = "none"
    /\ data.json.k = "array"
    /\ Len(data.json.v) < MaxArrayLen
    /\ data' = [data EXCEPT !.json = Arr(Append(data.json.v, entry))]
    /\ UNCHANGED <<op, out, game, flowVars, storeVars, settingsVars>>

CallSendVideoWebhook ==
    /\ op = "none"
    /\ op' = "sendVideoWebhook"
    /\ out' = sendVideoWebhook(data)
    /\ UNCHANGED <<data, game, flowVars, storeVars, settingsVars>>

CallPromptWebhook ==
    /\ op = "none"
    /\ op' = "callPromptWebhook"
    /\ out' = callPromptWebhook(data)
    /\ UNCHANGED <<data, game, flowVars, storeVars, settingsVars>>

PureNext ==
    \/ \E i \in 1..Len(BodyKeys) : \E val \in ValuesOf(BodyKeys[i]) : AddField(BodyKeys[i], val)
    \/ \E entry \in PromptEntries : AddEntry(entry)
    \/ CallSendVideoWebhook
    \/ CallPromptWebhook

PureSpec == PureInit /\ [][PureNext]_vars

----------------------------------------------------------------------------
(* Claims about the response normalization (checked under PureSpec) *)

SentBody == op = "sendVideoWebhook" /\ data.ok /\ data.json.k = "object"
Body == data.json.v

UrlKeysPresent == {i \in 1..Len(VIDEO_URL_KEYS) : VIDEO_URL_KEYS[i] \in DOMAIN Body}
UrlKeysWithText ==
    {i \in 1..Len(VIDEO_URL_KEYS) : IsNonBlankString(Get(Body, VIDEO_URL_KEYS[i]))}

Base64KeysWithText ==
    {i \in 1..Len(VIDEO_BASE64_KEYS) : IsNonBlankString(Get(Body, VIDEO_BASE64_KEYS[i]))}
MimeKeysWithText ==
    {i \in 1..Len(MIME_TYPE_KEYS) : IsNonBlankString(Get(Body, MIME_TYPE_KEYS[i]))}
Base64Payload == Trim(Body[VIDEO_BASE64_KEYS[Min(Base64KeysWithText)]].v)
MediaType ==
    IF MimeKeysWithText = {} THEN <<"video/mp4">>
    ELSE Trim(Body[MIME_TYPE_KEYS[Min(MimeKeysWithText)]].v)
DataReference == Str(<<"data:">> \o MediaType \o <<";base64,">> \o StripWhitespace(Base64Payload))
Base64OnlyBody == SentBody /\ UrlKeysPresent = {} /\ Base64KeysWithText # {}

NestedMeta ==
    IF Get(Body, "meta").k = "object" THEN Get(Body, "meta").v ELSE EmptyObj
MetaFields == IF out.val.meta.k = "object" THEN out.val.meta.v ELSE EmptyObj
StringAlias(f, key) == key \in EXCLUDED_META_KEYS /\ f[key].k = "string"

\* C8 as stated: the metadata is exactly the response fields whose key is no
\* video-payload alias, merged with the nested meta object's fields (nested value
\* kept on collision), and holds no field keyed by a video-payload alias.
C8_NoAliasKeyInMeta ==
    SentBody
        => /\ out.ok
           /\ DOMAIN MetaFields =
                  ((DOMAIN Body) \cup (DOMAIN NestedMeta)) \ EXCLUDED_META_KEYS
           /\ \A key \in DOMAIN MetaFields :
                  MetaFields[key] =
                      IF key \in DOMAIN NestedMeta THEN NestedMeta[key] ELSE Body[key]

\* C8 amended: a field is left out of the metadata only when its key is a
\* video-payload alias and its value is a string; every other field of the
\* response and of the nested meta object is kept, the nested value on collision.
C8_MetaFields ==
    SentBody
        => LET top == {key \in DOMAIN Body : ~StringAlias(Body, key)}
               nested == {key \in DOMAIN NestedMeta : ~StringAlias(NestedMeta, key)}
           IN /\ out.ok
              /\ DOMAIN MetaFields = top \cup nested
              /\ \A key \in nested : MetaFields[key] = NestedMeta[key]
              /\ \A key \in top \ nested : MetaFields[key] = Body[key]
              /\ \A key \in DOMAIN MetaFields : ~StringAlias(MetaFields, key)

\* a key at top level and in the nested meta object: the nested value was kept,
\* and the string-valued alias of the nested object was left out
C8_Witness ==
    /\ SentBody
    /\ Get(Body, "foo") = Str(<<"t">>)
    /\ Get(NestedMeta, "foo") = Str(<<"nested">>)
    /\ "url" \in DOMAIN NestedMeta
    /\ DOMAIN MetaFields = {"foo", "meta"}
    /\ MetaFields["foo"] = Str(<<"nested">>)

TextKeysIn(f) == {key \in Range(PROMPT_TEXT_KEYS) : key \in DOMAIN f}

\* a response shape the prompt call accepts: a string, or an object with a single
\* one of the text-bearing fields
AcceptedShape(value) ==
    \/ value.k = "string"
    \/ value.k = "object" /\ Cardinality(TextKeysIn(value.v)) = 1

\* the text of an accepted shape; none for any other value
TextOf(value) ==
    IF value.k = "string" THEN value
    ELSE IF value.k = "object" /\ Cardinality(TextKeysIn(value.v)) = 1
    THEN LET t == value.v[CHOOSE key \in TextKeysIn(value.v) : TRUE]
         IN IF t.k = "string" THEN t ELSE Undef
    ELSE Undef

HasText(value) == AcceptedShape(value) /\ TextOf(value).k = "string" /\ Len(TextOf(value).v) > 0

TextIn(value) ==
    \/ value.k = "string" /\ Len(value.v) > 0
    \/ /\ value.k = "object"
       /\ \E key \in TextKeysIn(value.v) :
             value.v[key].k = "string" /\ Len(value.v[key].v) > 0

HoldsText(value) ==
    \/ TextIn(value)
    \/ value.k = "array" /\ \E i \in 1..Len(value.v) : TextIn(value.v[i])

\* C26: callPromptWebhook never resolves with an empty prompt, and it fails with
\* the "no prompt text" error when the response holds no non-empty text in any
\* accepted shape.
C26_NeverEmptyPrompt ==
    (op = "callPromptWebhook" /\ data.ok)
        => /\ out.ok => out.val.prompt.k = "string" /\ Len(out.val.prompt.v) > 0
           /\ ~HoldsText(data.json) => ~out.ok /\ out.err = ErrNoPromptText

----------------------------------------------------------------------------
(* VideoSection.tsx: handleSubmit and handleAbort, with pollVideoStatus's loop.
   A flow is one invocation of handleSubmit, or one direct call of
   pollVideoStatus; its steps are the runs between two awaits. *)

MaxFlows == 2        \* flows started in one behaviour
MaxRequests == 3     \* status requests of all flows of the component together
SlowMs == 160000     \* latency of a slow status response, in ms

IntervalMs == 5000
TimeoutMs == 8 * 60 * 1000
DefaultIntervalMs == 5000
DefaultTimeoutMs == 6 * 60 * 1000

Latencies == {0, SlowMs}
ErrNetwork == <<"Failed to fetch">>

NoInitial == [meta |-> Undef, videoFileName |-> Undef, videoMimeType |-> Undef]

IdleFlow ==
    [pc |-> "unborn", caller |-> "none", aborted |-> FALSE, userAborted |-> FALSE,
     requests |-> 0, waits |-> 0, start |-> 0, wakeAt |-> 0,
     intervalMs |-> 0, timeoutMs |-> 0, initial |-> NoInitial]
\* a flow that ended keeps only the number of status requests it issued
DoneFlow(fl) == [IdleFlow EXCEPT !.pc = "done", !.requests = fl.requests]

RECURSIVE RequestsUpTo(_)
RequestsUpTo(f) == IF f = 0 THEN 0 ELSE flows[f].requests + RequestsUpTo(f - 1)
TotalRequests == RequestsUpTo(Len(flows))

NoResp == [ok |-> FALSE, json |-> Undef, text |-> <<>>, statusText |-> <<>>]
NoPoll == [kind |-> "none", err |-> <<>>, val |-> NoResult]

\* what a step did: the flow and the kind of step, the response delivered, whether
\* a status request was issued, which request was issued, the notification shown, and for a flow that ended
\* in this step how pollVideoStatus settled and the flow's counters at that point
NoEvent ==
    [flow |-> 0, kind |-> "none", resp |-> NoResp, request |-> FALSE, fetch |-> "none",
     notification |-> "none", message |-> <<>>, saved |-> FALSE, ended |-> FALSE,
     poll |-> NoPoll, requests |-> 0, waits |-> 0, elapsed |-> 0, timeoutMs |-> 0,
     aborted |-> FALSE, userAborted |-> FALSE]

Event(f, kind, resp) == [NoEvent EXCEPT !.flow = f, !.kind = kind, !.resp = resp]

isBusy == status \in {"uploading", "waiting"}

\* handleSubmit: the record's meta
recordMeta(meta, videoFileName, videoMimeType) ==
    LET base == IF Truthy(meta) /\ meta.k = "object" THEN meta.v ELSE EmptyObj
        withName == IF Truthy(videoFileName)
                    THEN ("videoFileName" :> videoFileName) @@ base ELSE base
        withMime == IF Truthy(videoMimeType)
                    THEN ("videoMimeType" :> videoMimeType) @@ withName ELSE withName
    IN IF DOMAIN withMime = {} THEN Undef ELSE Obj(withMime)

Success(record) == [kind |-> "success", err |-> <<>>, record |-> record]
Failure(err) == [kind |-> "error", err |-> err, record |-> Undef]

\* handleSubmit from "if (!videoUrl) throw" to the end of the try block
tryTail(f, videoUrl, meta, videoFileName, videoMimeType) ==
    IF ~Truthy(videoUrl) THEN Failure(ErrNoVideoLink)
    ELSE Success([id |-> f, prompt |-> <<"p">>, imageName |-> <<"image.png">>,
                  videoUrl |-> videoUrl, createdAt |-> now,
                  meta |-> recordMeta(meta, videoFileName, videoMimeType)])

\* handleSubmit needs to poll: !videoUrl && initial.statusUrl
needsPoll(sent) ==
    /\ sent.ok
    /\ ~Truthy(Coalesce(sent.val.videoUrl, Null))
    /\ Truthy(sent.val.statusUrl)

\* handleSubmit after sendVideoWebhook settled without a status URL to poll
afterSend(f, sent) ==
    IF ~sent.ok THEN Failure(sent.err)
    ELSE tryTail(f, Coalesce(sent.val.videoUrl, Null), sent.val.meta,
                 sent.val.videoFileName, sent.val.videoMimeType)

\* handleSubmit after pollVideoStatus settled
afterPoll(f, initial, poll) ==
    IF poll.kind = "throw" THEN Failure(poll.err)
    ELSE IF poll.val.status = "failed" THEN Failure(ErrJobFailed)
    ELSE tryTail(f, Coalesce(poll.val.videoUrl, Null),
                 Coalesce(poll.val.meta, initial.meta),
                 Coalesce(poll.val.videoFileName, initial.videoFileName),
                 Coalesce(poll.val.videoMimeType, initial.videoMimeType))

\* a faulty variant of finalStatus: the finally block always returns to idle
finalStatusAlwaysIdle(aborted, current) == "idle"

\* a faulty variant of hasWebhook: the URL is not looked at
hasWebhookAlways(url) == TRUE

\* !videoWebhook, !promptWebhook: an empty string is falsy
hasWebhook(url) == Len(url) > 0

\* the updater of the finally block's setStatus
finalStatus(aborted, current) ==
    IF aborted THEN "idle"
    ELSE IF current \in {"failed", "completed"} THEN current
    ELSE "idle"

\* a faulty variant of timedOut: the deadline counts as passed at once
timedOutAtOnce(elapsed, timeout) == elapsed >= 0

\* Date.now() - start > timeout
timedOut(elapsed, timeout) == elapsed > timeout

\* the end of flow fl at time t: its counters go to the event
Ended(ev, fl, t) ==
    [ev EXCEPT !.ended = TRUE,
               !.requests = fl.requests,
               !.waits = fl.waits,
               !.elapsed = t - fl.start,
               !.timeoutMs = fl.timeoutMs,
               !.aborted = fl.aborted,
               !.userAborted = fl.userAborted]

\* handleSubmit's try block ended with outcome: the rest of the try block, or the
\* catch block, and then the finally block.  fs holds the flows and current the
\* status as this run found them.
EndSubmit(fs, f, current, outcome, ev, t) ==
    LET aborted == fs[f].aborted
        afterTry == IF outcome.kind = "success" THEN "completed"
                    ELSE IF aborted THEN current ELSE "failed"
    IN /\ status' = finalStatus(aborted, afterTry)
       /\ controller' = 0
       /\ videoLibrary' = IF outcome.kind = "success"
                          THEN saveVideo(videoLibrary, outcome.record) ELSE videoLibrary
       /\ localStorage' = IF outcome.kind = "success"
                          THEN persist([AppState EXCEPT !.videoLibrary = videoLibrary'])
                          ELSE localStorage
       /\ UNCHANGED <<recentPrompts, activePromptId>>
       /\ flows' = [fs EXCEPT ![f] = DoneFlow(fs[f])]
       /\ event' = [Ended(ev, fs[f], t) EXCEPT
                       !.saved = (outcome.kind = "success"),
                       !.notification = IF outcome.kind = "success" THEN "success"
                                        ELSE IF aborted THEN "aborted" ELSE "failed",
                       !.message = outcome.err]

\* pollVideoStatus settled (returned or threw): back in its caller
PollSettles(fs, f, current, poll, ev, t) ==
    IF fs[f].caller = "handleSubmit"
    THEN EndSubmit(fs, f, current, afterPoll(f, fs[f].initial, poll),
                   [ev EXCEPT !.poll = poll], t)
    ELSE /\ flows' = [fs EXCEPT ![f] = DoneFlow(fs[f])]
         /\ event' = [Ended(ev, fs[f], t) EXCEPT !.poll = poll]
         /\ UNCHANGED <<status, controller, historyVars>>

ThrowOf(err) == [kind |-> "throw", err |-> err, val |-> NoResult]

\* AbortController.abort() on flow f: the signal is aborted, and a fetch of f that
\* is pending rejects with an AbortError; f's continuation (the catch and finally
\* blocks, as microtasks) runs before any later event is handled
AbortFlow(fs, f, current, ev, t) ==
    LET aborted == [fs EXCEPT ![f] = [@ EXCEPT !.aborted = TRUE]]
    IN IF fs[f].pc = "sending"
       THEN EndSubmit(aborted, f, current, Failure(ErrAbortedFetch), ev, t)
       ELSE IF fs[f].pc = "fetching"
       THEN PollSettles(aborted, f, current, ThrowOf(ErrAbortedFetch), ev, t)
       ELSE /\ flows' = aborted
            /\ event' = ev
            /\ status' = current
            /\ UNCHANGED <<controller, historyVars>>

\* handleSubmit up to its first await (the Submit button is disabled while busy)
Submit ==
    /\ ~isBusy
    /\ IF ~hasWebhook(videoWebhook)
       THEN /\ event' = [Event(0, "submit", NoResp) EXCEPT
                            !.notification = "warning", !.message = <<"Webhook fehlt">>]
            /\ UNCHANGED <<status, controller, flows, nflows, historyVars>>
       ELSE /\ nflows < MaxFlows
            /\ nflows' = nflows + 1
            /\ controller' = nflows + 1
            /\ status' = "uploading"
            /\ flows' = [flows EXCEPT ![nflows + 1] =
                            [IdleFlow EXCEPT !.pc = "sending", !.caller = "handleSubmit"]]
            /\ event' = [Event(nflows + 1, "submit", NoResp) EXCEPT !.fetch = "video"]
            /\ UNCHANGED historyVars
    /\ UNCHANGED <<now, videoWebhook, script, pureVars, settingsVars>>

\* the video webhook answers: handleSubmit from the first await to the next
SendResponds(f, resp) ==
    /\ flows[f].pc = "sending"
    /\ ~flows[f].aborted
    /\ LET sent == sendVideoWebhook(resp)
           ev == Event(f, "sendResponse", resp)
       IN IF needsPoll(sent)
          THEN /\ TotalRequests < MaxRequests
               /\ status' = "waiting"
               /\ flows' = [flows EXCEPT ![f] =
                               [@ EXCEPT !.pc = "fetching", !.requests = 1, !.start = now,
                                         !.intervalMs = IntervalMs, !.timeoutMs = TimeoutMs,
                                         !.initial = [meta |-> sent.val.meta,
                                                      videoFileName |-> sent.val.videoFileName,
                                                      videoMimeType |-> sent.val.videoMimeType]]]
               /\ event' = [ev EXCEPT !.request = TRUE, !.fetch = "status"]
               /\ UNCHANGED <<controller, historyVars>>
          ELSE EndSubmit(flows, f, status, afterSend(f, sent), ev, now)
    /\ UNCHANGED <<nflows, now, videoWebhook, script, pureVars, settingsVars>>

\* a direct call of pollVideoStatus: the first pass of the loop up to the fetch
PollCall(f) ==
    /\ flows[f].pc = "called"
    /\ LET ev == Event(f, "call", NoResp)
       IN IF flows[f].aborted
          THEN PollSettles(flows, f, status, ThrowOf(ErrAborted), ev, now)
          ELSE /\ flows' = [flows EXCEPT ![f] =
                               [@ EXCEPT !.pc = "fetching", !.requests = 1, !.start = now]]
               /\ event' = [ev EXCEPT !.request = TRUE, !.fetch = "status"]
               /\ UNCHANGED <<status, controller, historyVars>>
    /\ UNCHANGED <<nflows, now, videoWebhook, script, pureVars, settingsVars>>

\* the status endpoint answers after latency ms: the loop body from the fetch to
\* the return, the throw or the setTimeout
StatusResponds(f, resp, latency) ==
    /\ flows[f].pc = "fetching"
    /\ ~flows[f].aborted
    /\ now' = now + latency
    /\ LET poll == pollResponse(resp)
           ev == Event(f, "statusResponse", resp)
       IN IF poll.kind # "continue" THEN PollSettles(flows, f, status, poll, ev, now')
          ELSE IF timedOut(now' - flows[f].start, flows[f].timeoutMs)
          THEN PollSettles(flows, f, status, ThrowOf(ErrTimeout), ev, now')
          ELSE /\ flows' = [flows EXCEPT ![f] =
                               [@ EXCEPT !.pc = "sleeping", !.waits = @ + 1,
                                         !.wakeAt = now' + flows[f].intervalMs]]
               /\ event' = ev
               /\ UNCHANGED <<status, controller, historyVars>>
    /\ UNCHANGED <<nflows, videoWebhook, script, pureVars, settingsVars>>

\* the interval timer fires: the top of the loop, up to the next fetch
TimerFires(f, cap) ==
    /\ flows[f].pc = "sleeping"
    /\ flows[f].aborted \/ cap
    /\ now' = Max({now, flows[f].wakeAt})
    /\ LET ev == Event(f, "timer", NoResp)
       IN IF flows[f].aborted
          THEN PollSettles(flows, f, status, ThrowOf(ErrAborted), ev, now')
          ELSE /\ flows' = [flows EXCEPT ![f] =
                               [@ EXCEPT !.pc = "fetching", !.requests = @ + 1]]
               /\ event' = [ev EXCEPT !.request = TRUE, !.fetch = "status"]
               /\ UNCHANGED <<status, controller, historyVars>>
    /\ UNCHANGED <<nflows, videoWebhook, script, pureVars, settingsVars>>

\* a fetch fails in the network and rejects
NetworkFails(f) ==
    /\ flows[f].pc \in {"sending", "fetching"}
    /\ ~flows[f].aborted
    /\ LET ev == Event(f, "reject", NoResp)
       IN IF flows[f].pc = "sending"
          THEN EndSubmit(flows, f, status, Failure(ErrNetwork), ev, now)
          ELSE PollSettles(flows, f, status, ThrowOf(ErrNetwork), ev, now)
    /\ UNCHANGED <<nflows, now, videoWebhook, script, pureVars, settingsVars>>

\* the Abort button (shown while busy): controller?.abort(); setStatus("idle").
\* userAborted records the flows whose polling was running, not yet cancelled,
\* when the user pressed Abort.
handleAbort ==
    /\ isBusy
    /\ LET marked == [f \in DOMAIN flows |->
                         [flows[f] EXCEPT !.userAborted =
                             @ \/ (flows[f].pc \in {"fetching", "sleeping"}
                                   /\ ~flows[f].aborted)]]
           ev == Event(controller, "abort", NoResp)
       IN IF controller # 0
          THEN AbortFlow(marked, controller, "idle", ev, now)
          ELSE /\ status' = "idle"
               /\ flows' = marked
               /\ event' = ev
               /\ UNCHANGED <<controller, historyVars>>
    /\ UNCHANGED <<nflows, now, videoWebhook, script, pureVars, settingsVars>>

\* the caller of a direct pollVideoStatus call aborts the signal it passed
SignalAbort(f) ==
    /\ flows[f].caller = "direct"
    /\ flows[f].pc # "done"
    /\ ~flows[f].aborted
    /\ AbortFlow(flows, f, status, Event(f, "abort", NoResp), now)
    /\ UNCHANGED <<nflows, now, videoWebhook, script, pureVars, settingsVars>>

\* PromptSection: the form's prompt (at least 5 characters, as promptSchema asks)
PromptIdea == <<" ", "a scene">>
ErrNoPromptWebhook ==
    <<"Bitte hinterlege zuerst den Prompt-Webhook in den Einstellungen.">>

\* PromptSection: mutation.mutate(values) up to the fetch of callPromptWebhook, or
\* to onError when the prompt webhook is missing.  The button shows a loader
\* while a call is pending.
mutate ==
    /\ \A f \in DOMAIN flows : flows[f].pc # "prompting"
    /\ IF ~hasWebhook(promptWebhook)
       THEN /\ event' = [Event(0, "mutate", NoResp) EXCEPT
                            !.ended = TRUE, !.notification = "promptFailed",
                            !.message = ErrNoPromptWebhook]
            /\ UNCHANGED <<flows, nflows>>
       ELSE /\ nflows < MaxFlows
            /\ nflows' = nflows + 1
            /\ flows' = [flows EXCEPT ![nflows + 1] =
                            [IdleFlow EXCEPT !.pc = "prompting", !.caller = "mutation"]]
            /\ event' = [Event(nflows + 1, "mutate", NoResp) EXCEPT !.fetch = "prompt"]
    /\ UNCHANGED <<status, controller, historyVars>>
    /\ UNCHANGED <<now, videoWebhook, script, pureVars, settingsVars>>

\* the prompt webhook answers: callPromptWebhook settles, then onSuccess or onError
PromptResponds(f, resp) ==
    /\ flows[f].pc = "prompting"
    /\ LET result == callPromptWebhook(resp)
           trimmed == IF result.ok THEN result.val.prompt.v ELSE <<>>
           optimized == IF Len(trimmed) > 0 THEN trimmed ELSE Trim(PromptIdea)
           record == [id |-> f, originalPrompt |-> Trim(PromptIdea),
                      optimizedPrompt |-> Str(optimized), createdAt |-> now]
           ev == Ended(Event(f, "promptResponse", resp), flows[f], now)
       IN /\ flows' = [flows EXCEPT ![f] = DoneFlow(flows[f])]
          /\ IF result.ok
             THEN /\ recentPrompts' = savePrompt(recentPrompts, record)
                  /\ activePromptId' = record.id
                  /\ localStorage' = persist([AppState EXCEPT
                                                 !.recentPrompts = recentPrompts',
                                                 !.activePromptId = activePromptId'])
                  /\ event' = [ev EXCEPT !.saved = TRUE,
                                         !.notification = "promptSuccess"]
                  /\ UNCHANGED videoLibrary
             ELSE /\ event' = [ev EXCEPT !.notification = "promptFailed",
                                         !.message = result.err]
                  /\ UNCHANGED historyVars
    /\ UNCHANGED <<status, controller>>
    /\ UNCHANGED <<nflows, now, videoWebhook, script, pureVars, settingsVars>>

----------------------------------------------------------------------------
(* The component: submissions and aborts against endpoints that answer with any
   of these responses *)

SendResponses ==
    {HttpOk(Obj([key \in {"videoUrl"} |-> Str(<<"u">>)])),
     HttpOk(Obj([key \in {"statusUrl"} |-> Str(<<"s">>)])),
     HttpOk(Obj([key \in {"status_url", "videoBase64"} |-> Str(<<"!", "A">>)])),
     HttpOk(Obj([key \in {"videoUrl"} |-> Num])),
     HttpOk(Obj([key \in {"videoUrl"} |-> Str(<<" ">>)])),
     HttpOk(Obj([key \in {"jobId"} |-> Str(<<"j">>)])),
     HttpOk(Arr(<<>>)),
     HttpError(<<"boom">>, <<"Bad Gateway">>)}

StatusResponses ==
    {HttpOk(Obj([key \in {"status"} |-> StProcessing])),
     HttpOk(Obj(("status" :> StCompleted) @@ ("videoUrl" :> Str(<<"u">>)))),
     HttpOk(Obj([key \in {"status"} |-> StCompleted])),
     HttpOk(Obj([key \in {"status"} |-> StFailed])),
     HttpOk(Obj([key \in {"video_url"} |-> Str(<<"u">>)])),
     HttpOk(Arr(<<>>)),
     HttpError(<<>>, <<"Bad Gateway">>)}

PromptResponses ==
    {HttpOk(Str(<<"x">>)),
     HttpOk(Obj([key \in {"foo"} |-> Str(<<"x">>)])),
     HttpError(<<"boom">>, <<"Bad Gateway">>),
     HttpError(<<>>, <<"Bad Gateway">>)}

PureUnused == data = NoResp /\ op = "none" /\ out = NoOut /\ game = NoGame

Init ==
    /\ PureUnused
    /\ status = "idle"
    /\ controller = 0
    /\ flows = [f \in 1..MaxFlows |-> IdleFlow]
    /\ nflows = 0
    /\ now = 0
    /\ videoLibrary = <<>>
    /\ recentPrompts = <<>>
    /\ activePromptId = 0
    /\ theme = "dark"
    /\ \E configured \in BOOLEAN :
          /\ videoWebhook = IF configured THEN <<"https://hook/video">> ELSE <<>>
          /\ promptWebhook = IF configured THEN <<"https://hook/prompt">> ELSE <<>>
    /\ localStorage = persist(AppState)
    /\ DrawerClosed
    /\ limit = NoCalls
    /\ used = NoCalls
    /\ script = <<>>
    /\ event = NoEvent

Next ==
    \/ Submit
    \/ handleAbort
    \/ \E f \in 1..MaxFlows : \E resp \in SendResponses : SendResponds(f, resp)
    \/ \E f \in 1..MaxFlows : \E resp \in StatusResponses : \E latency \in Latencies :
          StatusResponds(f, resp, latency)
    \/ \E f \in 1..MaxFlows : TimerFires(f, TotalRequests < MaxRequests)
    \/ \E f \in 1..MaxFlows : NetworkFails(f)
    \/ mutate
    \/ \E f \in 1..MaxFlows : \E resp \in PromptResponses : PromptResponds(f, resp)

Spec == Init /\ [][Next]_vars

----------------------------------------------------------------------------
(* A direct call of pollVideoStatus(statusUrl, options) against a status endpoint
   that answers the n-th request with the n-th response of script, and every
   later request with the last one.  Every request is answered (or rejects once
   the signal is aborted) and every timer fires. *)

ShortTimeoutMs == 10000   \* a short deadline passed as options.timeoutMs

PollOptions ==
    {[intervalMs |-> DefaultIntervalMs, timeoutMs |-> DefaultTimeoutMs],
     [intervalMs |-> IntervalMs, timeoutMs |-> TimeoutMs],
     [intervalMs |-> IntervalMs, timeoutMs |-> ShortTimeoutMs]}

RespProcessing == HttpOk(Obj([key \in {"status"} |-> StProcessing]))
RespPending == HttpOk(Obj([key \in {"state"} |-> StPending]))
RespCompleted == HttpOk(Obj(("status" :> StCompleted) @@ ("videoUrl" :> Str(<<"u">>))))
RespFailed == HttpOk(Obj([key \in {"status"} |-> StFailed]))
RespAliasOnly == HttpOk(Obj([key \in {"video_url"} |-> Str(<<"u">>)]))

ScriptTwiceProcessing == <<RespProcessing, RespProcessing, RespCompleted>>
NonTerminalScripts == {<<RespProcessing>>, <<RespPending, RespProcessing>>}
Scripts ==
    {ScriptTwiceProcessing, <<RespCompleted>>, <<RespProcessing, RespFailed>>,
     <<RespPending, RespAliasOnly>>}
        \cup NonTerminalScripts

ScriptAt(n) == script[Min({Max({n, 1}), Len(script)})]

PollInit ==
    /\ PureUnused
    /\ status = "idle"
    /\ controller = 0
    /\ \E options \in PollOptions :
          flows = [f \in 1..MaxFlows |->
                     IF f = 1
                     THEN [IdleFlow EXCEPT !.pc = "called", !.caller = "direct",
                                           !.intervalMs = options.intervalMs,
                                           !.timeoutMs = options.timeoutMs]
                     ELSE IdleFlow]
    /\ nflows = 1
    /\ now = 0
    /\ videoLibrary = <<>>
    /\ videoWebhook = <<>>
    /\ StoreFresh
    /\ DrawerClosed
    /\ limit = NoCalls
    /\ used = NoCalls
    /\ script \in Scripts
    /\ event = NoEvent

ScriptResponds == \E latency \in Latencies : StatusResponds(1, ScriptAt(flows[1].requests), latency)

PollNext ==
    \/ PollCall(1)
    \/ ScriptResponds
    \/ TimerFires(1, TRUE)
    \/ SignalAbort(1)

PollSpec ==
    /\ PollInit
    /\ [][PollNext]_vars
    /\ WF_vars(PollCall(1))
    /\ WF_vars(ScriptResponds)
    /\ WF_vars(TimerFires(1, TRUE))

----------------------------------------------------------------------------
(* Claims about pollVideoStatus (checked under PollSpec) *)

\* C1: against responses processing, processing, completed with a URL, without
\* cancellation or timeout, pollVideoStatus resolves completed with that URL after
\* exactly three requests, with one interval wait before each request but the first.
C1_ThreeRequests ==
    /\ (flows[1].pc = "fetching" => flows[1].waits = flows[1].requests - 1)
    /\ (flows[1].pc = "sleeping" =>
           /\ flows[1].waits = flows[1].requests
           /\ flows[1].wakeAt = now + flows[1].intervalMs)
    /\ (/\ script = ScriptTwiceProcessing
        /\ event.ended
        /\ ~event.aborted
        /\ event.elapsed <= event.timeoutMs)
          => /\ event.poll.kind = "return"
             /\ event.poll.val.status = "completed"
             /\ event.poll.val.videoUrl = Str(<<"u">>)
             /\ event.requests = 3
             /\ event.waits = 2

\* the poll resolved completed after its third request
C1_Witness ==
    /\ script = ScriptTwiceProcessing
    /\ event.ended
    /\ ~event.aborted
    /\ event.poll.val.status = "completed"
    /\ event.requests = 3

NeverCompletes == script \in NonTerminalScripts

\* C2: against an endpoint that answers every request with a non-terminal status,
\* pollVideoStatus ends; unless it was cancelled it ends by throwing the timeout
\* error, at a moment when more than timeoutMs have elapsed since it started.
C2_PollTimesOut ==
    /\ [](NeverCompletes => <>(flows[1].pc = "done"))
    /\ []((NeverCompletes /\ event.ended /\ ~event.aborted)
             => /\ event.poll = ThrowOf(ErrTimeout)
                /\ event.elapsed > event.timeoutMs)

\* the poll of handleSubmit's options (5 s, 8 min) ended with the timeout error
C2_Witness ==
    /\ NeverCompletes
    /\ event.ended
    /\ ~event.aborted
    /\ event.poll.err = ErrTimeout
    /\ event.timeoutMs = TimeoutMs
    /\ event.elapsed > TimeoutMs

----------------------------------------------------------------------------
(* Claims about the video flow (checked under Spec) *)

StatusDelivered ==
    event.kind = "statusResponse" /\ event.resp.ok /\ isRecord(event.resp.json)

\* C3: once the user has aborted while a flow's polling was running, that flow
\* issues no further status request, and it ends without a failure notification
\* and with the status idle.
C3_AbortStopsPolling ==
    /\ \A f \in 1..MaxFlows :
          flows[f].userAborted => ~(event.flow = f /\ event.request)
    /\ (event.ended /\ event.userAborted)
          => event.notification # "failed" /\ status = "idle"

\* what holds of the code: the same of a flow whose own signal was aborted
SignalAbortStopsPolling ==
    /\ \A f \in 1..MaxFlows :
          flows[f].aborted => ~(event.flow = f /\ event.request)
    /\ (event.ended /\ event.aborted)
          => event.notification = "aborted" /\ status = "idle" /\ ~event.saved

\* C4: pollVideoStatus returns completed, with the reference, at the first status
\* response from which normalizeVideoPayload yields a video reference.
C4_TerminalAtFirstReference ==
    (StatusDelivered /\ Truthy(normalizeVideoPayload(event.resp.json.v).videoUrl))
        => /\ event.ended
           /\ event.poll.kind = "return"
           /\ event.poll.val.status = "completed"
           /\ event.poll.val.videoUrl = normalizeVideoPayload(event.resp.json.v).videoUrl

\* C5: a status response with status failed ends the polling in that step, with a
\* failed result that carries the response as meta; the flow ends with the status
\* failed, a failure notification and no video record saved.
C5_FailedStatusEndsFlow ==
    (StatusDelivered /\ Prop(event.resp.json, "status") = StFailed)
        => /\ event.ended
           /\ flows[event.flow].pc = "done"
           /\ ~event.request
           /\ event.poll.kind = "return"
           /\ event.poll.val.status = "failed"
           /\ event.poll.val.meta = event.resp.json
           /\ status = "failed"
           /\ event.notification = "failed"
           /\ event.message = ErrJobFailed
           /\ ~event.saved
           /\ \A i \in 1..Len(videoLibrary) : videoLibrary[i].id # event.flow

\* a flow polled, waited, polled again and was told that the job failed
C5_Witness ==
    /\ StatusDelivered
    /\ Prop(event.resp.json, "status") = StFailed
    /\ event.requests = 2
    /\ event.waits = 1
    /\ status = "failed"
    /\ event.notification = "failed"

HasStatusReference(json) ==
    \E key \in {"statusUrl", "status_url", "statusURI"} : Truthy(Prop(json, key))

\* C9: a video-webhook response with neither a direct video reference nor a
\* status-polling reference makes the flow fail with the "no video link" error:
\* no status request, no record saved, a failure notification.
C9_NoReferenceFails ==
    (/\ event.kind = "sendResponse"
     /\ event.resp.ok
     /\ isRecord(event.resp.json)
     /\ ~Truthy(normalizeVideoPayload(event.resp.json.v).videoUrl)
     /\ ~HasStatusReference(event.resp.json))
        => /\ event.ended
           /\ ~event.request
           /\ ~event.saved
           /\ event.notification = "failed"
           /\ event.message = ErrNoVideoLink
           /\ status = "failed"

----------------------------------------------------------------------------
(* Claims about the component: HTTP errors, missing webhooks, failures,
   concurrent flows and the saved records *)

ResponseDelivered == event.kind \in {"promptResponse", "sendResponse", "statusResponse"}

\* C11: when the response to callPromptWebhook, sendVideoWebhook or
\* pollVideoStatus is not ok, the operation fails in that step with the response's
\* text as message, or the status text when the text is empty; the flow ends and
\* issues no request.
C11_HttpErrorFails ==
    (ResponseDelivered /\ ~event.resp.ok)
        => /\ event.ended
           /\ event.message = IF event.resp.text # <<>> THEN event.resp.text
                              ELSE event.resp.statusText
           /\ event.notification \in {"failed", "promptFailed"}
           /\ event.fetch = "none"
           /\ flows[event.flow].pc = "done"
           /\ (event.kind = "statusResponse" => event.poll = ThrowOf(event.message))

\* a status request of a video flow was answered with an HTTP error without a body
C11_Witness ==
    /\ event.kind = "statusResponse"
    /\ ~event.resp.ok
    /\ event.resp.text = <<>>
    /\ event.message = <<"Bad Gateway">>
    /\ event.notification = "failed"

FlowFailed == event.ended /\ event.notification = "failed"

\* C17 as stated: after a failed video flow the status is idle, the controller is
\* cleared and a new submission is accepted.
C17_FailureReturnsToIdle ==
    FlowFailed => status = "idle" /\ controller = 0 /\ ~isBusy

\* C17 amended: after a failed video flow the failure is notified, the status is
\* failed (which is not busy), the controller is cleared and a new submission is
\* accepted.
C17_FailureLeavesFailed ==
    FlowFailed => status = "failed" /\ controller = 0 /\ ~isBusy

\* the status polling of a flow timed out and the flow failed
C17_Witness ==
    /\ FlowFailed
    /\ event.message = ErrTimeout
    /\ status = "failed"

InFlight == {f \in DOMAIN flows : /\ flows[f].caller = "handleSubmit"
                                  /\ flows[f].pc \in {"sending", "fetching", "sleeping"}}

\* C18: at most one video flow is in flight at any time.
C18_OneFlowInFlight == Cardinality(InFlight) <= 1

\* C20: every record of the video library holds a non-empty videoUrl string, and a
\* flow that saves a record obtained a video reference from the normalization of
\* the response it ended on.
C20_RecordsHoldReference ==
    /\ \A i \in 1..Len(videoLibrary) :
          /\ videoLibrary[i].videoUrl.k = "string"
          /\ videoLibrary[i].videoUrl.v # <<>>
    /\ (event.saved /\ event.kind \in {"sendResponse", "statusResponse"})
          => Truthy(normalizeVideoPayload(event.resp.json.v).videoUrl)

StatusRequested == event.request /\ event.fetch = "status"

\* C21: pollVideoStatus sends no status request once the time since it started
\* is greater than timeoutMs.
C21_NoRequestAfterTimeout ==
    \A f \in DOMAIN flows :
        (event.flow = f /\ StatusRequested)
            => now - flows[f].start <= flows[f].timeoutMs

\* C23: while a video flow that was not aborted is in flight, the status is
\* uploading or waiting and the stored abort controller is that flow's, whatever
\* an aborted earlier flow does when its request or wait ends.
C23_StaleFlowLeavesLaterFlow ==
    \A f \in InFlight :
        ~flows[f].aborted => isBusy /\ controller = f

\* C24: a video flow that the user has aborted saves no video record and does
\* not set the status to completed.
C24_AbortedFlowNeverCompletes ==
    (event.ended /\ event.userAborted)
        => /\ ~event.saved
           /\ status # "completed"
           /\ \A i \in 1..Len(videoLibrary) : videoLibrary[i].id # event.flow

----------------------------------------------------------------------------
(* The store's history operations, called with any record: one with a fresh id,
   as the components make them, or one with the id of a stored record.  A
   behaviour works on one of the two lists. *)

MaxPromptSaves == 11   \* calls of savePrompt in one behaviour
MaxVideoSaves == 21    \* calls of saveVideo in one behaviour
MaxEdits == 1          \* calls that are no save of a fresh record

FreshPromptId == used.prompts + 1
FreshVideoId == used.videos + 1

PromptRecord(id) ==
    [id |-> id, originalPrompt |-> <<"a scene">>,
     optimizedPrompt |-> IF id = FreshPromptId THEN Str(<<"x">>) ELSE Undef,
     createdAt |-> used.prompts + 1]

VideoRecord(id) ==
    [id |-> id, prompt |-> <<"p">>, imageName |-> <<"image.png">>,
     videoUrl |-> Str(<<"u">>), createdAt |-> used.videos + 1,
     meta |-> IF id = FreshVideoId THEN Undef
              ELSE Obj([key \in {"videoFileName"} |-> Str(<<"clip.mp4">>)])]

\* the records a call that is no fresh save works on: the first, the second and
\* the last of the list
EditTargets(list) == {list[i].id : i \in {1, 2, Len(list)} \cap (1..Len(list))}

CanEdit == used.edits < limit.edits
Edited == [used EXCEPT !.edits = @ + 1]

\* the components' state, which the store's operations do not touch
ComponentsIdle ==
    /\ status = "idle" /\ controller = 0 /\ flows = <<>> /\ nflows = 0
    /\ now = 0 /\ script = <<>> /\ event = <<>>
componentVars == <<status, controller, flows, nflows, now, script, event>>
drawerVars == <<settingsOpen, form, limit>>

\* set(partial) under persist: the state is merged and the item is rewritten
Set(next) ==
    /\ theme' = next.theme
    /\ promptWebhook' = next.promptWebhook
    /\ videoWebhook' = next.videoWebhook
    /\ recentPrompts' = next.recentPrompts
    /\ activePromptId' = next.activePromptId
    /\ videoLibrary' = next.videoLibrary
    /\ localStorage' = persist(next)

SavePrompt(id) ==
    /\ used.prompts < limit.prompts
    /\ id = FreshPromptId \/ (id \in EditTargets(recentPrompts) /\ CanEdit)
    /\ Set([AppState EXCEPT !.recentPrompts = savePrompt(recentPrompts, PromptRecord(id)),
                            !.activePromptId = id])
    /\ used' = [used EXCEPT !.prompts = @ + 1,
                            !.edits = IF id = FreshPromptId THEN @ ELSE @ + 1]
    /\ UNCHANGED <<componentVars, drawerVars, pureVars>>

RemovePrompt(id) ==
    /\ CanEdit
    /\ id \in EditTargets(recentPrompts)
    /\ Set([AppState EXCEPT !.recentPrompts = removeById(recentPrompts, id),
                            !.activePromptId = activeAfterRemove(activePromptId, id)])
    /\ used' = Edited
    /\ UNCHANGED <<componentVars, drawerVars, pureVars>>

SetActivePrompt(id) ==
    /\ CanEdit
    /\ id \in EditTargets(recentPrompts) \cup {0}
    /\ id # activePromptId
    /\ Set([AppState EXCEPT !.activePromptId = id])
    /\ used' = Edited
    /\ UNCHANGED <<componentVars, drawerVars, pureVars>>

SaveVideo(id) ==
    /\ used.videos < limit.videos
    /\ id = FreshVideoId \/ (id \in EditTargets(videoLibrary) /\ CanEdit)
    /\ Set([AppState EXCEPT !.videoLibrary = saveVideo(videoLibrary, VideoRecord(id))])
    /\ used' = [used EXCEPT !.videos = @ + 1,
                            !.edits = IF id = FreshVideoId THEN @ ELSE @ + 1]
    /\ UNCHANGED <<componentVars, drawerVars, pureVars>>

RemoveVideo(id) ==
    /\ CanEdit
    /\ id \in EditTargets(videoLibrary)
    /\ Set([AppState EXCEPT !.videoLibrary = removeById(videoLibrary, id)])
    /\ used' = Edited
    /\ UNCHANGED <<componentVars, drawerVars, pureVars>>

ClearVideoLibrary ==
    /\ CanEdit
    /\ videoLibrary # <<>>
    /\ Set([AppState EXCEPT !.videoLibrary = <<>>])
    /\ used' = Edited
    /\ UNCHANGED <<componentVars, drawerVars, pureVars>>

StoreLimits ==
    {[prompts |-> MaxPromptSaves, videos |-> 0, edits |-> MaxEdits],
     [prompts |-> 0, videos |-> MaxVideoSaves, edits |-> MaxEdits]}

StoreInit ==
    /\ PureUnused
    /\ ComponentsIdle
    /\ videoWebhook = <<>>
    /\ videoLibrary = <<>>
    /\ StoreFresh
    /\ DrawerClosed
    /\ limit \in StoreLimits
    /\ used = NoCalls

RecordIds == 0..(MaxVideoSaves + 1)

StoreNext ==
    \/ \E id \in RecordIds : SavePrompt(id)
    \/ \E id \in RecordIds : RemovePrompt(id)
    \/ \E id \in RecordIds : SetActivePrompt(id)
    \/ \E id \in RecordIds : SaveVideo(id)
    \/ \E id \in RecordIds : RemoveVideo(id)
    \/ ClearVideoLibrary

StoreSpec == StoreInit /\ [][StoreNext]_vars

----------------------------------------------------------------------------
(* Claims about the store's histories *)

SavedPrompt == used'.prompts = used.prompts + 1
SavedVideo == used'.videos = used.videos + 1
\* the last record of a list was saved before all the others
LastIsOldest(list) ==
    \A i \in 1..(Len(list) - 1) : list[i].createdAt > list[Len(list)].createdAt

\* C12: recentPrompts never holds more than 10 records and videoLibrary never more
\* than 20; a save of a new record into a full list puts the record first, keeps
\* the others but the last in their order, and the one dropped is the oldest.
C12_HistoriesCapped ==
    /\ [](Len(recentPrompts) <= 10 /\ Len(videoLibrary) <= 20)
    /\ [][/\ (SavedPrompt /\ Len(recentPrompts) = 10
                 /\ activePromptId' \notin Ids(recentPrompts))
              => /\ Len(recentPrompts') = 10
                 /\ recentPrompts'[1].id = activePromptId'
                 /\ SubSeq(recentPrompts', 2, 10) = SubSeq(recentPrompts, 1, 9)
                 /\ LastIsOldest(recentPrompts)
          /\ (SavedVideo /\ Len(videoLibrary) = 20
                 /\ videoLibrary'[1].id \notin Ids(videoLibrary))
              => /\ Len(videoLibrary') = 20
                 /\ SubSeq(videoLibrary', 2, 20) = SubSeq(videoLibrary, 1, 19)
                 /\ LastIsOldest(videoLibrary)]_vars

\* the 21st video was saved: the library is full and the first video is gone
C12_Witness ==
    /\ Len(videoLibrary) = 20
    /\ videoLibrary[1].id = 21
    /\ 1 \notin Ids(videoLibrary)

NoDuplicateIds(list) ==
    \A i, j \in 1..Len(list) : list[i].id = list[j].id => i = j

\* C13: no two records of recentPrompts share an id, and no two of videoLibrary.
C13_UniqueIds == NoDuplicateIds(recentPrompts) /\ NoDuplicateIds(videoLibrary)

\* a prompt was saved again under the id of a stored record
C13_Witness ==
    /\ Len(recentPrompts) >= 2
    /\ recentPrompts[1].optimizedPrompt = Undef
    /\ recentPrompts[1].id < recentPrompts[2].id

\* the list has the same records as before at every position but that of id,
\* where it has a record of that id
ReplacedInPlace(before, after, id) ==
    /\ Len(after) = Len(before)
    /\ \A i \in 1..Len(before) :
          IF before[i].id = id THEN after[i].id = id ELSE after[i] = before[i]

\* C14 as stated: a save under the id of a stored record leaves the list's length
\* and every other record's position unchanged, the new record taking the position
\* of the one it replaces.
C14_ReplacesInPlace ==
    [][/\ (SavedPrompt /\ activePromptId' \in Ids(recentPrompts))
           => ReplacedInPlace(recentPrompts, recentPrompts', activePromptId')
       /\ (SavedVideo /\ videoLibrary'[1].id \in Ids(videoLibrary))
           => ReplacedInPlace(videoLibrary, videoLibrary', videoLibrary'[1].id)]_vars

\* the list is the record of that id followed by the other records in their order
MovedToFront(before, after, id) ==
    /\ Len(after) = Len(before)
    /\ after[1].id = id
    /\ SubSeq(after, 2, Len(after)) = removeById(before, id)

\* C14 amended: a save under the id of a stored record leaves the list's length
\* unchanged; the stored record is removed, the new one is put first, and the
\* other records keep their order.
C14_ReplacesAtFront ==
    [][/\ (SavedPrompt /\ activePromptId' \in Ids(recentPrompts))
           => /\ MovedToFront(recentPrompts, recentPrompts', activePromptId')
              /\ recentPrompts'[1] = PromptRecord(activePromptId')
       /\ (SavedVideo /\ videoLibrary'[1].id \in Ids(videoLibrary))
           => /\ MovedToFront(videoLibrary, videoLibrary', videoLibrary'[1].id)
              /\ videoLibrary'[1] = VideoRecord(videoLibrary'[1].id)]_vars

\* a video was saved again under the id of a stored record that was not the first
C14_Witness ==
    /\ Len(videoLibrary) >= 2
    /\ videoLibrary[1].meta # Undef
    /\ videoLibrary[1].id < videoLibrary[2].id


\* C25: activePromptId is unset or the id of a record of recentPrompts; savePrompt
\* sets it to the saved record's id, which is then the first of the list, and
\* removePrompt of the active record unsets it.
C25_ActivePromptInHistory ==
    /\ [](activePromptId = 0 \/ activePromptId \in Ids(recentPrompts))
    /\ [][/\ SavedPrompt => /\ activePromptId' = recentPrompts'[1].id
                             /\ activePromptId' # 0
          /\ (/\ Len(recentPrompts') < Len(recentPrompts)
              /\ activePromptId \notin Ids(recentPrompts'))
               => activePromptId' = 0]_vars

\* the active record was removed from a history that holds other records
C25_Witness ==
    /\ activePromptId = 0
    /\ used.edits = 1
    /\ Len(recentPrompts) >= 1
    /\ Len(recentPrompts) = used.prompts - 1
    /\ used.prompts <= MaxPrompts
----------------------------------------------------------------------------
(* The settings: the header's theme button, the settings drawer with its form and
   theme switch, the store's history operations on short lists, and a reload of
   the page, which creates the store anew from localStorage. *)

MaxSettingsSaves == 1   \* saves into each history in one behaviour

PromptUrl == <<"https://hook/prompt">>
VideoUrl == <<"https://hook/video">>
FormValues == {<<>>, PromptUrl, VideoUrl \o <<" ">>, <<"ftp://hook">>}

\* value.startsWith("http")
StartsWithHttp(value) == Len(value) > 0 /\ <<value[1]>> \in {PromptUrl, VideoUrl}
\* the form's validate: value && !value.startsWith("http") is an error
Valid(value) == value = <<>> \/ StartsWithHttp(value)

\* the useEffect of the drawer: the form takes the stored URLs
StoredUrls(state) ==
    [promptWebhook |-> state.promptWebhook, videoWebhook |-> state.videoWebhook]

historyOnly == <<componentVars, pureVars, limit, used>>

\* HeaderBar: the settings button
OpenSettings ==
    /\ ~settingsOpen
    /\ settingsOpen' = TRUE
    /\ form' = StoredUrls(AppState)
    /\ UNCHANGED <<storeVars, videoWebhook, videoLibrary, historyOnly>>

\* SettingsDrawer: typing into one of the two inputs
EditForm(field, value) ==
    /\ settingsOpen
    /\ form[field] # value
    /\ form' = [form EXCEPT ![field] = value]
    /\ UNCHANGED <<settingsOpen, storeVars, videoWebhook, videoLibrary, historyOnly>>

\* SettingsDrawer: Abbrechen, or the drawer's close button
CloseSettings ==
    /\ settingsOpen
    /\ settingsOpen' = FALSE
    /\ form' = StoredUrls(AppState)
    /\ UNCHANGED <<storeVars, videoWebhook, videoLibrary, historyOnly>>

\* SettingsDrawer: Speichern; form.onSubmit runs handleSubmit when the values are valid
SaveSettings ==
    /\ settingsOpen
    /\ Valid(form.promptWebhook) /\ Valid(form.videoWebhook)
    /\ LET next == setVideoWebhook(setPromptWebhook(AppState, form.promptWebhook),
                                   form.videoWebhook)
       IN /\ Set(next)
          /\ form' = StoredUrls(next)
    /\ settingsOpen' = FALSE
    /\ UNCHANGED historyOnly

\* SettingsDrawer: the theme switch
SwitchTheme(checked) ==
    /\ settingsOpen
    /\ checked = (theme # "dark")
    /\ Set(setTheme(AppState, IF checked THEN "dark" ELSE "light"))
    /\ UNCHANGED <<settingsOpen, form, historyOnly>>

\* HeaderBar: the theme button, reachable while the drawer is closed
toggleTheme ==
    /\ ~settingsOpen
    /\ Set(toggledTheme(AppState))
    /\ UNCHANGED <<settingsOpen, form, historyOnly>>

\* the page is loaded again: the store is created from the stored item and the
\* item is written back; the drawer is closed
Reload ==
    /\ LET next == rehydrate(localStorage)
       IN /\ Set(next)
          /\ form' = StoredUrls(next)
    /\ settingsOpen' = FALSE
    /\ UNCHANGED historyOnly

SettingsInit ==
    /\ PureUnused
    /\ ComponentsIdle
    /\ videoWebhook = <<>>
    /\ videoLibrary = <<>>
    /\ StoreFresh
    /\ DrawerClosed
    /\ limit = [prompts |-> MaxSettingsSaves, videos |-> MaxSettingsSaves,
                edits |-> MaxEdits]
    /\ used = NoCalls

SettingsNext ==
    \/ OpenSettings
    \/ \E field \in {"promptWebhook", "videoWebhook"} : \E value \in FormValues :
          EditForm(field, value)
    \/ CloseSettings
    \/ SaveSettings
    \/ \E checked \in BOOLEAN : SwitchTheme(checked)
    \/ toggleTheme
    \/ Reload
    \/ \E id \in RecordIds : SavePrompt(id)
    \/ \E id \in RecordIds : RemovePrompt(id)
    \/ \E id \in RecordIds : SetActivePrompt(id)
    \/ \E id \in RecordIds : SaveVideo(id)
    \/ \E id \in RecordIds : RemoveVideo(id)
    \/ ClearVideoLibrary

SettingsSpec == SettingsInit /\ [][SettingsNext]_vars

----------------------------------------------------------------------------
(* Claims about persistence and the settings *)

SettingsChanged ==
    \/ theme' # theme
    \/ promptWebhook' # promptWebhook
    \/ videoWebhook' # videoWebhook

\* C19 as stated: the stored URLs and the theme change only in a save of the
\* settings form.
C19_OnlySaveChangesSettings == [][SettingsChanged => SaveSettings]_vars

\* C19 amended: the stored URLs change only in a save of the settings form, which
\* stores the trimmed values of the form and leaves the theme; the theme changes
\* only by the header's theme button and the drawer's theme switch, at once.
C19_UrlsOnlyBySave ==
    [][/\ (promptWebhook' # promptWebhook \/ videoWebhook' # videoWebhook)
           => /\ SaveSettings
              /\ promptWebhook' = Trim(form.promptWebhook)
              /\ videoWebhook' = Trim(form.videoWebhook)
              /\ theme' = theme
       /\ theme' # theme => (toggleTheme \/ \E checked \in BOOLEAN : SwitchTheme(checked))
      ]_vars

\* the URLs were saved, one of them trimmed, and the theme was switched, and the
\* drawer is open again with other values typed in
C19_Witness ==
    /\ promptWebhook = PromptUrl
    /\ videoWebhook = VideoUrl
    /\ theme = "light"
    /\ settingsOpen
    /\ form.promptWebhook = <<"ftp://hook">>
    /\ Len(recentPrompts) = 1

----------------------------------------------------------------------------
(* The minigame on its own: the component is mounted and unmounted, keys are
   pressed and the interval fires. *)

MaxTicks == 9    \* interval callbacks that move the snake in one behaviour
MaxKeys == 3     \* key presses in one behaviour

\* the cells Math.random is drawn from: three cells before the head of the
\* starting snake and a corner that no snake within MaxTicks reaches
AppleCells ==
    {Coords(start.x + 1, start.y), Coords(start.x + 2, start.y),
     Coords(start.x + 1, start.y - 1), Coords(0, 0)}

\* randomPosition: the cells it can return
randomPosition(occupied) == {position \in AppleCells : position \notin Segments(occupied)}

\* resetGame, with the apple it draws
resetGame(g, apple) ==
    [g EXCEPT !.direction = "right", !.pendingDirection = "none",
              !.snake = StartSnake, !.apple = apple,
              !.score = 0, !.isGameOver = FALSE]

gameUnchanged == <<data, op, out, flowVars, storeVars, settingsVars>>

\* VideoSection renders the game while a flow is busy: useState's initial
\* values, then the effect that calls resetGame
Mount ==
    /\ ~game.mounted
    /\ \E apple \in randomPosition(StartSnake) :
          game' = resetGame([game EXCEPT !.mounted = TRUE, !.highscore = game.stored],
                            apple)
    /\ UNCHANGED gameUnchanged

\* the flow is no longer busy: the component and its state are dropped
Unmount ==
    /\ game.mounted
    /\ game' = [NoGame EXCEPT !.stored = game.stored,
                              !.ticks = game.ticks, !.keys = game.keys]
    /\ UNCHANGED gameUnchanged

\* handleKeyDown with a key of the mapping; a key that repeats the pending
\* direction changes nothing
handleKeyDown(direction) ==
    /\ game.mounted
    /\ game.keys < MaxKeys
    /\ direction # oppositeDirection(game.direction)
    /\ direction # game.pendingDirection
    /\ game' = [game EXCEPT !.pendingDirection = direction, !.keys = @ + 1]
    /\ UNCHANGED gameUnchanged

\* the interval's callback while the game is not over
tick ==
    /\ game.mounted
    /\ ~game.isGameOver
    /\ game.ticks < MaxTicks
    /\ LET current == [game EXCEPT !.direction = heading(game),
                                   !.pendingDirection = "none",
                                   !.ticks = @ + 1]
           newHead == newHeadOf(game)
       IN IF isOutside(newHead) \/ hitsBody(current.snake, newHead)
          THEN game' = [current EXCEPT
                           !.isGameOver = TRUE,
                           !.highscore = IF game.score > @ THEN game.score ELSE @,
                           !.stored = IF game.score > game.highscore
                                      THEN game.score ELSE @]
          ELSE IF newHead = current.apple
          THEN \E apple \in randomPosition(<<newHead>> \o current.snake) :
                  game' = [current EXCEPT !.snake = <<newHead>> \o @,
                                          !.score = @ + 1,
                                          !.apple = apple]
          ELSE game' = [current EXCEPT
                           !.snake = <<newHead>> \o SubSeq(@, 1, Len(@) - 1)]
    /\ UNCHANGED gameUnchanged

\* a click on the game-over box
Restart ==
    /\ game.mounted
    /\ game.isGameOver
    /\ \E apple \in randomPosition(StartSnake) : game' = resetGame(game, apple)
    /\ UNCHANGED gameUnchanged

SnakeInit ==
    /\ data = NoResp /\ op = "none" /\ out = NoOut
    /\ ComponentsIdle
    /\ videoWebhook = <<>>
    /\ videoLibrary = <<>>
    /\ StoreFresh
    /\ DrawerClosed
    /\ limit = NoCalls
    /\ used = NoCalls
    /\ game = NoGame

SnakeNext ==
    \/ Mount
    \/ Unmount
    \/ \E direction \in Directions : handleKeyDown(direction)
    \/ tick
    \/ Restart

SnakeSpec == SnakeInit /\ [][SnakeNext]_vars

----------------------------------------------------------------------------
(* Claims about the minigame *)

InsideBoard(c) == c.x \in 0..(BOARD_SIZE - 1) /\ c.y \in 0..(BOARD_SIZE - 1)

PairwiseDistinct(snake) ==
    \A i, j \in 1..Len(snake) : i # j => snake[i] # snake[j]

Ticked == game'.ticks = game.ticks + 1

\* C22: after every tick in which the game is not over, the snake's segments
\* lie inside the 18x18 board and are pairwise distinct, and the apple lies
\* inside the board on a cell the snake does not occupy; a tick whose new head
\* position is outside the board or on a segment of the snake ends the game and
\* leaves the snake unchanged.
C22_SnakeStaysOnBoard ==
    /\ []((game.mounted /\ ~game.isGameOver)
            => /\ \A i \in 1..Len(game.snake) : InsideBoard(game.snake[i])
               /\ PairwiseDistinct(game.snake)
               /\ InsideBoard(game.apple)
               /\ game.apple \notin Segments(game.snake))
    /\ [][Ticked
            => IF ~InsideBoard(newHeadOf(game)) \/ newHeadOf(game) \in Segments(game.snake)
               THEN game'.isGameOver /\ game'.snake = game.snake
               ELSE ~game'.isGameOver /\ game'.snake[1] = newHeadOf(game)]_vars

\* the snake ate an apple, turned three times and ran into its last segment
C22_Witness ==
    /\ game.isGameOver
    /\ game.score >= 1
    /\ InsideBoard(newHeadOf(game))
    /\ newHeadOf(game) = game.snake[Len(game.snake)]

====
